---- MODULE Spec2Model ----
(***************************************************************************)
(* State-machine model of MetamaskInpageProvider (index.js, src/utils.js). *)
(*                                                                         *)
(* The module-level object _state is ONE record shared by every provider   *)
(* instance of the page; the fields the constructor puts on `this` are     *)
(* per instance.  Two instances, "A" and "B", can be constructed.          *)
(* Every handler of the source is one atomic action (JavaScript runs each  *)
(* callback to completion).                                                *)
(***************************************************************************)
EXTENDS Integers, Sequences, FiniteSets, TLC

\* ------------------------------------------------------------- bounds
\* request slots: how many requests are submitted in one behaviour
MaxReq == 2

\* ------------------------------------------------------- value domains
Inst == {"A", "B"}
NoInst == "-"

\* JavaScript undefined / null, as seen in this.chainId, this.selectedAddress
Undefined == "undefined"
Null == "null"

\* _state.isConnected is undefined | true | false
JsTrue == "true"
JsFalse == "false"

\* a payload that carries no id (payload.id === undefined)
NoId == 0
CallerIds == {1, 2}
\* json-rpc-engine's getUniqueId never collides with the ids the page uses here
FirstInternalId == Cardinality(CallerIds) + 1

\* error code tested by the legacy eth_accounts paths
Unauthorized == 4100
\* some other remote error codes (user rejected, internal error)
OtherCodes == {4001}
ErrorCodes == {Unauthorized} \cup OtherCodes
\* code of the 'close' event
CloseCode == 1011
\* "no error": the err argument of a callback is null
NoErr == 0

Methods == {"eth_accounts", "eth_call"}
Entries == {"send", "sendAsync"}

\* shapes of the payload given to send/sendAsync: a request object with a
\* string method, or an array, null/undefined, another primitive, an object
\* whose method is missing or not a string
WellFormed == "object"
Malformed == {"array", "null", "primitive", "noMethod"}
\* what a facade method throws synchronously at its caller
NoThrow == "none"
InvalidRequest == "invalidRequest"
TypeError == "TypeError"

\* the two ways into _requestAccounts
AccountEntries == {"enable", "eth_requestAccounts"}
RequestPermissions == "wallet_requestPermissions"
\* _state.sentWarnings
WarningNames == {"enable", "experimentalMethods", "isConnected", "sendAsync",
                 "signTypedData"}

\* the three pump() pipelines of the constructor, named by the label their
\* disconnect callback is bound to
MuxStream == "MetaMask"
ProviderStream == "MetaMask RpcProvider"
ConfigStream == "MetaMask PublicConfigStore"
AllStreams == {MuxStream, ProviderStream, ConfigStream}
CriticalStreams == {MuxStream, ProviderStream}

\* JavaScript values handed around as account lists / results:
\* an array of addresses, a non-array (truthy) value, or undefined
Arr(s) == [kind |-> "array", items |-> s]
NonArray == [kind |-> "other", items |-> <<>>]
UndefVal == [kind |-> "undefined", items |-> <<>>]
\* no response body
NoBody == [hasError |-> FALSE, code |-> NoErr, result |-> UndefVal]
AccountLists == {<<>>, <<"0xabc">>, <<"0xabc", "0xdef">>, <<"0xdef">>}
AccountVals == {Arr(s) : s \in AccountLists} \cup {NonArray}

ChainIds == {"0x1", "0x2"}
NetworkVersions == {"1"}
\* a key that is not in a public-config snapshot
Absent == "absent"
Snapshots ==
  [isUnlocked : {Absent, JsTrue, JsFalse},
   chainId : {Absent} \cup ChainIds,
   networkVersion : {Absent} \cup NetworkVersions]

\* ---------------------------------------------------------------- state
VARIABLES
  state,     \* the module-level _state object
  prov,      \* per instance: the provider's own fields
  store,     \* per instance: fields the subscribe handler puts on publicConfigStore
  timer,     \* per instance: the setTimeout(() => emit('connect')) is pending
  open,      \* per instance: the pump() pipelines still alive
  reqs,      \* request slots: requests handed to rpcEngine.handle
  nextId,    \* json-rpc-engine's unique id counter
  emitted,   \* events emitted by the last handler, in order
  delivered, \* completions of page callbacks/promises by the last handler
  lastOp     \* the last handler run and its input

vars == <<state, prov, store, timer, open, reqs, nextId, emitted, delivered, lastOp>>

Slots == 1..MaxReq

\* a response object as the engine builds it
NoResponse == [id |-> NoId, hasError |-> FALSE, code |-> NoErr, result |-> UndefVal]

\* a request slot.  step: which request of _requestAccounts it is (0: none);
\* batch: the first slot of the batch it belongs to (0: none); held: the
\* element's response, kept until its batch is complete
FreeSlot ==
  [status |-> "free", inst |-> NoInst, entry |-> "-", method |-> "-",
   callerId |-> NoId, internalId |-> NoId, sent |-> FALSE, late |-> FALSE,
   calls |-> 0, step |-> 0, batch |-> 0,
   held |-> [answers |-> 0, method |-> "-", sent |-> NoResponse, res |-> NoResponse]]

\* the last handler: its name, its instance, and whether it called
\* _handleAccountsChanged and with what; the snapshot it received; the shape
\* of the payload the page passed; the error it threw at its caller; how
\* many payloads it passed to rpcEngine.handle; the response body it received
\* (recorded for the responses to _requestAccounts)
Op(name, i, reconcile, arg) ==
  [op |-> name, inst |-> i, reconcile |-> reconcile, arg |-> arg,
   snap |-> [isUnlocked |-> Absent, chainId |-> Absent, networkVersion |-> Absent],
   shape |-> WellFormed, thrown |-> NoThrow, handed |-> 0, body |-> NoBody]

\* an event: emitter `target` ("provider" or "store") of instance `inst`
Event(i, target, name, payload, code) ==
  [inst |-> i, target |-> target, name |-> name, payload |-> payload, code |-> code]

\* ------------------------------------------------------------- helpers
\* logStreamDisconnectWarning only logs (and emits 'error' when the page has
\* attached an 'error' listener, which the model's page does not).

\* What the page observes when its promise or callback is completed:
\*   how    "resolve" | "reject" (send's promise) or "callback" (sendAsync)
\*   err    the callback's err argument (an error code, NoErr for null)
\*   code   the code of the error the page is given, NoErr when none
\*   value  the result the page is given
\*   id     the id of the response object the page is given (NoId when the
\*          page sees no response object or one without id)

\* rpcPromiseCallback: reject(error || response.error), else resolve(result)
RpcPromiseCallback(err, res) ==
  IF err # NoErr \/ res.hasError
  THEN [how |-> "reject", err |-> NoErr,
        code |-> IF err # NoErr THEN err ELSE res.code,
        value |-> UndefVal, id |-> NoId]
  ELSE [how |-> "resolve", err |-> NoErr, code |-> NoErr,
        value |-> res.result, id |-> NoId]

\* the callback the page passed to sendAsync receives (err, res) as they are
PageCallback(err, res) ==
  [how |-> "callback", err |-> err,
   code |-> IF res.hasError THEN res.code ELSE err,
   value |-> res.result, id |-> res.id]

UserCallback(entry, err, res) ==
  IF entry = "sendAsync" THEN PageCallback(err, res) ELSE RpcPromiseCallback(err, res)

\* a promise callback that resolves response.result whatever the response is
RpcPromiseCallbackResultOnly(err, responses) ==
  IF err # NoErr
  THEN [how |-> "reject", err |-> NoErr, code |-> err, value |-> UndefVal, id |-> NoId]
  ELSE [how |-> "resolve", err |-> NoErr, code |-> NoErr, value |-> UndefVal, id |-> NoId]

\* an error middleware that lets every error through
ErrorMiddlewareKeepsAll(method, res) == res

\* createErrorMiddleware's return handler
ErrorMiddleware(method, res) ==
  IF ~res.hasError THEN res
  ELSE IF method = "eth_accounts" /\ res.code = Unauthorized
       THEN [res EXCEPT !.hasError = FALSE, !.code = NoErr, !.result = Arr(<<>>)]
       ELSE res

\* createIdRemapMiddleware: a fresh id on the way out, the caller's id put
\* back on the response on the way in
GetUniqueId == nextId
IdRemapRestore(res, originalId) == [res EXCEPT !.id = originalId]

\* json-rpc-middleware-stream: the response is matched to its pending request
\* by the id it carries (idMap[res.id])
LookupContext(i, id) ==
  CHOOSE s \in Slots :
    reqs[s].status = "pending" /\ reqs[s].inst = i /\ reqs[s].internalId = id

\* _handleAccountsChanged, on provider i, with the module-level list `accs`
\* and the instance's selectedAddress `sel`.  this.emit runs the listeners
\* before _state.accounts and this.selectedAddress are assigned: `seen` is
\* what a listener of the event reads from the provider.
HandleAccountsChanged(i, val, accs, sel) ==
  LET accounts == IF val.kind = "array" THEN val.items ELSE <<>>
      changed == accs # accounts
      first == IF Len(accounts) > 0 THEN accounts[1] ELSE Undefined
  IN [accounts |-> IF changed THEN accounts ELSE accs,
      selectedAddress |->
        IF sel # first THEN (IF first = Undefined THEN Null ELSE first) ELSE sel,
      events |-> IF changed
                 THEN <<Event(i, "provider", "accountsChanged", accounts, 0)>>
                 ELSE <<>>,
      seen |-> [accounts |-> accs, selectedAddress |-> sel]]

\* res.result || []
ResultOrEmpty(res) == IF res.result.kind = "undefined" THEN Arr(<<>>) ELSE res.result

\* a legacy eth_accounts wrapper that calls the user's callback in the
\* unauthorized branch and again at its end
SendAsyncCbTwice(entry, method, err, res) ==
  IF method = "eth_accounts"
  THEN [reconcile |-> TRUE, arg |-> ResultOrEmpty(res),
        outcomes |-> <<UserCallback(entry, err, res), UserCallback(entry, err, res)>>]
  ELSE [reconcile |-> FALSE, arg |-> UndefVal,
        outcomes |-> <<UserCallback(entry, err, res)>>]

\* the callback _sendAsync hands to rpcEngine.handle: for eth_accounts the
\* legacy wrapper, otherwise the user's callback itself.  Gives the response
\* as delivered, the value passed to _handleAccountsChanged (if any) and the
\* completions of the user's callback/promise, in order.
SendAsyncCb(entry, method, err, res) ==
  IF method = "eth_accounts"
  THEN LET res2 == IF err # NoErr /\ err = Unauthorized
                   THEN [res EXCEPT !.hasError = FALSE, !.code = NoErr,
                                    !.result = Arr(<<>>)]
                   ELSE res
       IN [reconcile |-> TRUE, arg |-> ResultOrEmpty(res2),
           outcomes |-> <<UserCallback(entry, err, res2)>>]
  ELSE [reconcile |-> FALSE, arg |-> UndefVal,
        outcomes |-> <<UserCallback(entry, err, res)>>]

\* rpcPromiseCallback given the array of responses of a batch: an array has
\* no .error, so the promise resolves with the array itself
RpcPromiseCallbackBatch(err, responses) ==
  IF err # NoErr
  THEN [how |-> "reject", err |-> NoErr, code |-> err, value |-> UndefVal, id |-> NoId]
  ELSE [how |-> "resolve", err |-> NoErr, code |-> NoErr,
        value |-> [kind |-> "responses", items |-> responses], id |-> NoId]

\* what the remote end may answer to a request
Bodies(method) ==
  {[hasError |-> TRUE, code |-> c, result |-> UndefVal] : c \in ErrorCodes}
  \cup
  {[hasError |-> FALSE, code |-> NoErr, result |-> v] :
     v \in IF method = "eth_accounts" THEN AccountVals ELSE {NonArray}}

Connected(i) == CriticalStreams \subseteq open[i]

\* if (!_state.sentWarnings[name]) { console.warn(...); ...[name] = true }
Warned(st, name) == [st EXCEPT !.sentWarnings[name] = TRUE]

\* the deprecated entry points warn once before they do their work
AfterEntry(st, entry) ==
  IF entry \in {"sendAsync", "enable"} THEN Warned(st, entry) ELSE st

FirstFree == CHOOSE s \in Slots : reqs[s].status = "free" /\
                                  \A t \in Slots : reqs[t].status = "free" => s <= t

\* ----------------------------------------------------------------- Init
Init ==
  /\ state = [isConnected |-> Undefined, accounts |-> <<>>,
              isUnlocked |-> JsFalse, sentSiteMetadata |-> FALSE,
              sentWarnings |-> [w \in WarningNames |-> FALSE]]
  /\ prov = [i \in Inst |->
               [constructed |-> FALSE, selectedAddress |-> Undefined,
                networkVersion |-> Undefined, chainId |-> Undefined,
                connects |-> 0]]
  /\ store = [i \in Inst |-> [chainId |-> Undefined, networkVersion |-> Undefined]]
  /\ timer = [i \in Inst |-> FALSE]
  /\ open = [i \in Inst |-> {}]
  /\ reqs = [s \in Slots |-> FreeSlot]
  /\ nextId = FirstInternalId
  /\ emitted = <<>>
  /\ delivered = <<>>
  /\ lastOp = Op("none", NoInst, FALSE, UndefVal)

\* -------------------------------------------------------------- actions
\* a constructor that ends with this.emit('connect') instead of deferring it
ConstructEmitsConnect(i) ==
  /\ ~prov[i].constructed
  /\ prov' = [prov EXCEPT ![i] =
               [constructed |-> TRUE, selectedAddress |-> Null,
                networkVersion |-> Undefined, chainId |-> Undefined,
                connects |-> 1]]
  /\ store' = [store EXCEPT ![i] = [chainId |-> Undefined, networkVersion |-> Undefined]]
  /\ timer' = [timer EXCEPT ![i] = FALSE]
  /\ open' = [open EXCEPT ![i] = AllStreams]
  /\ state' = [state EXCEPT !.isConnected = JsTrue]
  /\ emitted' = <<Event(i, "provider", "connect", <<>>, 0)>>
  /\ delivered' = <<>>
  /\ lastOp' = Op("construct", i, FALSE, UndefVal)
  /\ UNCHANGED <<reqs, nextId>>

\* new MetamaskInpageProvider(connectionStream)
Construct(i) ==
  /\ ~prov[i].constructed
  /\ prov' = [prov EXCEPT ![i] =
               [constructed |-> TRUE, selectedAddress |-> Null,
                networkVersion |-> Undefined, chainId |-> Undefined,
                connects |-> 0]]
  /\ store' = [store EXCEPT ![i] = [chainId |-> Undefined, networkVersion |-> Undefined]]
  /\ timer' = [timer EXCEPT ![i] = TRUE]
  /\ open' = [open EXCEPT ![i] = AllStreams]
  /\ emitted' = <<>>
  /\ delivered' = <<>>
  /\ lastOp' = Op("construct", i, FALSE, UndefVal)
  /\ UNCHANGED <<state, reqs, nextId>>

\* the setTimeout callback: this.emit('connect'), whose listener sets
\* _state.isConnected = true
ConnectTimer(i) ==
  /\ timer[i]
  /\ timer' = [timer EXCEPT ![i] = FALSE]
  /\ prov' = [prov EXCEPT ![i].connects = @ + 1]
  /\ state' = [state EXCEPT !.isConnected = JsTrue]
  /\ emitted' = <<Event(i, "provider", "connect", <<>>, 0)>>
  /\ delivered' = <<>>
  /\ lastOp' = Op("connect", i, FALSE, UndefVal)
  /\ UNCHANGED <<store, open, reqs, nextId>>

\* a provider whose three pipelines all end in _handleDisconnect
DisconnectAllCritical(i, s) ==
  /\ s \in open[i]
  /\ open' = [open EXCEPT ![i] = @ \ {s}]
  /\ emitted' = IF state.isConnected = JsTrue
                THEN <<Event(i, "provider", "close", <<>>, CloseCode)>>
                ELSE <<>>
  /\ state' = [state EXCEPT !.isConnected = JsFalse]
  /\ delivered' = <<>>
  /\ lastOp' = Op("disconnect", i, FALSE, UndefVal)
  /\ UNCHANGED <<prov, store, timer, reqs, nextId>>

\* the callback of one of the three pump() pipelines: _handleDisconnect for
\* the critical ones, logStreamDisconnectWarning for the public config
Disconnect(i, s) ==
  /\ s \in open[i]
  /\ open' = [open EXCEPT ![i] = @ \ {s}]
  /\ IF s \in CriticalStreams
     THEN /\ emitted' = IF state.isConnected = JsTrue
                        THEN <<Event(i, "provider", "close", <<>>, CloseCode)>>
                        ELSE <<>>
          /\ state' = [state EXCEPT !.isConnected = JsFalse]
     ELSE /\ emitted' = <<>>
          /\ UNCHANGED state
  /\ delivered' = <<>>
  /\ lastOp' = Op("disconnect", i, FALSE, UndefVal)
  /\ UNCHANGED <<prov, store, timer, reqs, nextId>>

\* the publicConfigStore.subscribe handler, run for every snapshot the store
\* receives.  It is a `function`, not an arrow function, and the store calls
\* its 'update' listeners with `this` set to the store: this.chainId,
\* this.networkVersion and this.emit are the store's, not the provider's.
SubscribeHandler(i, snap) ==
  LET unlockedChanged == snap.isUnlocked # Absent /\ snap.isUnlocked # state.isUnlocked
      chainChanged == snap.chainId # Absent /\ snap.chainId # store[i].chainId
      netChanged == snap.networkVersion # Absent
                    /\ snap.networkVersion # store[i].networkVersion
  IN /\ state' = IF unlockedChanged
                 THEN [state EXCEPT !.isUnlocked = snap.isUnlocked] ELSE state
     /\ store' = [store EXCEPT ![i] =
                   [chainId |-> IF chainChanged THEN snap.chainId ELSE @.chainId,
                    networkVersion |-> IF netChanged THEN snap.networkVersion
                                       ELSE @.networkVersion]]
     /\ emitted' =
          (IF chainChanged
           THEN <<Event(i, "store", "chainChanged", <<snap.chainId>>, 0)>> ELSE <<>>)
          \o
          (IF netChanged
           THEN <<Event(i, "store", "networkChanged", <<snap.networkVersion>>, 0)>>
           ELSE <<>>)
     /\ UNCHANGED prov

\* a snapshot arrives on the 'publicConfig' channel
Snapshot(i, snap) ==
  /\ {MuxStream, ConfigStream} \subseteq open[i]
  /\ SubscribeHandler(i, snap)
  /\ delivered' = <<>>
  /\ lastOp' = [Op("snapshot", i, FALSE, UndefVal) EXCEPT !.snap = snap]
  /\ UNCHANGED <<timer, open, reqs, nextId>>

\* _sendAsync(payload, cb) for a well-formed single payload, reached from
\* send(payload) (cb = rpcPromiseCallback) or sendAsync(payload, cb):
\* rpcEngine.handle remaps the id and writes the request to the provider
\* stream; nothing in the path looks at the connection state
SendAsync(i, entry, method, callerId) ==
  LET s == FirstFree IN
  /\ reqs' = [reqs EXCEPT ![s] =
               [status |-> "pending", inst |-> i, entry |-> entry,
                method |-> method, callerId |-> callerId,
                internalId |-> GetUniqueId, sent |-> Connected(i),
                late |-> ~Connected(i), calls |-> 0, step |-> 0, batch |-> 0,
                held |-> FreeSlot.held]]
  /\ nextId' = nextId + 1
  /\ state' = [AfterEntry(state, entry) EXCEPT !.sentSiteMetadata = TRUE]
  /\ emitted' = <<>>
  /\ delivered' = <<>>
  /\ lastOp' = [Op("request", i, FALSE, UndefVal) EXCEPT !.handed = 1]
  /\ UNCHANGED <<prov, store, timer, open>>

\* the page calls send or sendAsync on a constructed provider
Send(i, entry, method, callerId) ==
  /\ prov[i].constructed
  /\ \E s \in Slots : reqs[s].status = "free"
  /\ SendAsync(i, entry, method, callerId)

\* send(payload) with a malformed payload: the type check of send throws
\* invalidRequest before anything else is done; for null, typeof is 'object'
\* and reading payload.method throws a TypeError instead
SendMalformed(i, shape) ==
  /\ prov[i].constructed
  /\ lastOp' = [Op("send", i, FALSE, UndefVal) EXCEPT
                  !.shape = shape,
                  !.thrown = IF shape = "null" THEN TypeError ELSE InvalidRequest]
  /\ emitted' = <<>>
  /\ delivered' = <<>>
  /\ UNCHANGED <<state, prov, store, timer, open, reqs, nextId>>

\* sendAsync(payload, cb) with a malformed payload: sendAsync warns and calls
\* _sendAsync, which sends the site metadata if it has not been sent and,
\* without any check, passes the payload to rpcEngine.handle.  For a
\* non-array it first reads and defaults payload.jsonrpc: reading it throws
\* a TypeError on null/undefined, and writing it on another primitive throws
\* one if the build runs the file in strict mode (`strict`).  What the
\* engine does with a payload of this kind is not in this source.
SendAsyncMalformed(i, shape, strict) ==
  LET throws == shape = "null" \/ (shape = "primitive" /\ strict) IN
  /\ prov[i].constructed
  /\ state' = [AfterEntry(state, "sendAsync") EXCEPT !.sentSiteMetadata = TRUE]
  /\ lastOp' = [Op("sendAsync", i, FALSE, UndefVal) EXCEPT
                  !.shape = shape,
                  !.thrown = IF throws THEN TypeError ELSE NoThrow,
                  !.handed = IF throws THEN 0 ELSE 1]
  /\ emitted' = <<>>
  /\ delivered' = <<>>
  /\ UNCHANGED <<prov, store, timer, open, reqs, nextId>>

\* the engine's processing of a response envelope `env` that the stream
\* middleware matched to slot s: Object.assign(res, env), the return handlers
\* of the error middleware and of the id remapping, then cb(err, res).
\* Whether the engine repeats a response's error as the callback's err
\* argument is the engine's business: both are allowed (errArg).
Complete(i, s, env, errArg) ==
  LET r == reqs[s]
      res0 == [id |-> env.id, hasError |-> env.body.hasError,
               code |-> env.body.code, result |-> env.body.result]
      res1 == ErrorMiddleware(r.method, res0)
      res2 == IdRemapRestore(res1, r.callerId)
      err == IF errArg /\ res2.hasError THEN res2.code ELSE NoErr
      cb == SendAsyncCb(r.entry, r.method, err, res2)
      hac == HandleAccountsChanged(i, cb.arg, state.accounts, prov[i].selectedAddress)
  IN /\ reqs' = [reqs EXCEPT ![s] =
                  [FreeSlot EXCEPT !.status = "done", !.calls = Len(cb.outcomes)]]
     /\ IF cb.reconcile
        THEN /\ state' = [state EXCEPT !.accounts = hac.accounts]
             /\ prov' = [prov EXCEPT ![i].selectedAddress = hac.selectedAddress]
             /\ emitted' = hac.events
        ELSE /\ emitted' = <<>>
             /\ UNCHANGED <<state, prov>>
     /\ delivered' = [k \in 1..Len(cb.outcomes) |->
                        [slot |-> s, answers |-> env.answers,
                         entry |-> r.entry, method |-> r.method,
                         callerId |-> r.callerId, internalId |-> r.internalId,
                         body |-> env.body, outcome |-> cb.outcomes[k],
                         results |-> <<>>, step |-> 0]]
     /\ lastOp' = Op("response", i, cb.reconcile, cb.arg)

\* the remote end answers the request it received for slot a (an envelope
\* carrying that request's transmitted id) over the provider channel
Respond(i, a, body, errArg) ==
  /\ Connected(i)
  /\ reqs[a].status = "pending" /\ reqs[a].inst = i /\ reqs[a].sent
  /\ reqs[a].step = 0 /\ reqs[a].batch = 0
  /\ body \in Bodies(reqs[a].method)
  /\ LET env == [id |-> reqs[a].internalId, answers |-> a, body |-> body]
     IN Complete(i, LookupContext(i, env.id), env, errArg)
  /\ UNCHANGED <<store, timer, open, nextId>>

\* the request _requestAccounts hands to _sendAsync as its number `step`
AccountsRequest(i, method, step) ==
  [status |-> "pending", inst |-> i, entry |-> "_requestAccounts", method |-> method,
   callerId |-> NoId, internalId |-> GetUniqueId, sent |-> Connected(i),
   late |-> ~Connected(i), calls |-> 0, step |-> step, batch |-> 0,
   held |-> FreeSlot.held]

\* enable() or send('eth_requestAccounts'): _requestAccounts starts its
\* promise chain by sending eth_accounts.  The slot it takes is the call's:
\* each later request of the chain is sent when the one before it has
\* completed and takes its place.
RequestAccounts(i, entry) ==
  /\ prov[i].constructed
  /\ \E s \in Slots : reqs[s].status = "free"
  /\ reqs' = [reqs EXCEPT ![FirstFree] = AccountsRequest(i, "eth_accounts", 1)]
  /\ nextId' = nextId + 1
  /\ state' = [AfterEntry(state, entry) EXCEPT !.sentSiteMetadata = TRUE]
  /\ emitted' = <<>>
  /\ delivered' = <<>>
  /\ lastOp' = [Op("requestAccounts", i, FALSE, UndefVal) EXCEPT !.handed = 1]
  /\ UNCHANGED <<prov, store, timer, open>>

\* a chain that asks for the permission whatever the first query returned
RequestAccountsThenAlwaysAsk(step, inner) ==
  LET resolved(v) == [how |-> "resolve", err |-> NoErr, code |-> NoErr,
                      value |-> v, id |-> NoId]
  IN IF inner.how = "reject"
     THEN [next |-> "-", outer |-> <<resolved(UndefVal)>>]
     ELSE IF step = 1
     THEN [next |-> RequestPermissions, outer |-> <<>>]
     ELSE IF step = 2
     THEN [next |-> "eth_accounts", outer |-> <<>>]
     ELSE [next |-> "-", outer |-> <<resolved(inner.value)>>]

\* what the promise chain of _requestAccounts does when the promise of its
\* request number `step` is settled with `inner`:
\*   next   the method of the request it sends next ("-": none)
\*   outer  the settlements of the promise the caller holds
\* A rejection anywhere lands in the final .catch(err => console.error(err)),
\* whose return value, undefined, resolves the caller's promise.
RequestAccountsThen(step, inner) ==
  LET resolved(v) == [how |-> "resolve", err |-> NoErr, code |-> NoErr,
                      value |-> v, id |-> NoId]
  IN IF inner.how = "reject"
     THEN [next |-> "-", outer |-> <<resolved(UndefVal)>>]
     ELSE IF step = 1
     THEN IF inner.value.kind # "array" \/ inner.value.items = <<>>
          THEN [next |-> RequestPermissions, outer |-> <<>>]
          ELSE [next |-> "-", outer |-> <<resolved(inner.value)>>]
     ELSE IF step = 2
     THEN [next |-> "eth_accounts", outer |-> <<>>]
     ELSE [next |-> "-", outer |-> <<resolved(inner.value)>>]

\* the remote end answers the outstanding request of a _requestAccounts
\* call: the engine completes it as any single request (the eth_accounts
\* wrapper included), rpcPromiseCallback settles the chain's inner promise
\* and the chain's reactions run before any other handler does.
RespondRequestAccounts(i, a, body, errArg) ==
  /\ Connected(i)
  /\ reqs[a].status = "pending" /\ reqs[a].inst = i /\ reqs[a].sent
  /\ reqs[a].step > 0
  /\ body \in Bodies(reqs[a].method)
  /\ LET s == LookupContext(i, reqs[a].internalId)
         r == reqs[s]
         res0 == [id |-> r.internalId, hasError |-> body.hasError,
                  code |-> body.code, result |-> body.result]
         res2 == IdRemapRestore(ErrorMiddleware(r.method, res0), r.callerId)
         err == IF errArg /\ res2.hasError THEN res2.code ELSE NoErr
         cb == SendAsyncCb(r.entry, r.method, err, res2)
         hac == HandleAccountsChanged(i, cb.arg, state.accounts, prov[i].selectedAddress)
         then == RequestAccountsThen(r.step, cb.outcomes[1])
     IN /\ IF cb.reconcile
           THEN /\ state' = [state EXCEPT !.accounts = hac.accounts]
                /\ prov' = [prov EXCEPT ![i].selectedAddress = hac.selectedAddress]
                /\ emitted' = hac.events
           ELSE /\ emitted' = <<>>
                /\ UNCHANGED <<state, prov>>
        /\ IF then.next = "-"
           THEN /\ reqs' = [reqs EXCEPT ![s] =
                             [FreeSlot EXCEPT !.status = "done",
                                              !.calls = Len(then.outer)]]
                /\ UNCHANGED nextId
           ELSE /\ reqs' = [reqs EXCEPT ![s] =
                             AccountsRequest(i, then.next, r.step + 1)]
                /\ nextId' = nextId + 1
        /\ delivered' = [k \in 1..Len(then.outer) |->
                           [slot |-> s, answers |-> a, entry |-> r.entry,
                            method |-> r.method, callerId |-> r.callerId,
                            internalId |-> r.internalId, body |-> body,
                            outcome |-> then.outer[k], results |-> <<>>,
                            step |-> r.step]]
        /\ lastOp' = [Op("requestAccounts-response", i, cb.reconcile, cb.arg) EXCEPT
                        !.body = body,
                        !.handed = IF then.next = "-" THEN 0 ELSE 1]
  /\ UNCHANGED <<store, timer, open>>

\* the batches the page submits: 1..MaxReq request objects
Batches == UNION {[1..k -> Methods] : k \in 1..MaxReq}

\* _metamask.sendBatch(requests): the Proxy's get warns once, then
\* _sendAsync passes the array to rpcEngine.handle with rpcPromiseCallback;
\* for an array _sendAsync neither defaults jsonrpc nor installs the
\* eth_accounts wrapper.  The engine treats each element as a request of its
\* own (a fresh id each, written to the provider stream in order).
SendBatch(i, methods) ==
  LET k == Len(methods)
      f == FirstFree
  IN /\ prov[i].constructed
     /\ \E s \in Slots : reqs[s].status = "free"
     /\ f + k - 1 <= MaxReq
     /\ reqs' = [s \in Slots |->
                  IF s \in f..(f + k - 1)
                  THEN [status |-> "pending", inst |-> i, entry |-> "sendBatch",
                        method |-> methods[s - f + 1], callerId |-> NoId,
                        internalId |-> GetUniqueId + (s - f), sent |-> Connected(i),
                        late |-> ~Connected(i), calls |-> 0, step |-> 0,
                        batch |-> f, held |-> FreeSlot.held]
                  ELSE reqs[s]]
     /\ nextId' = nextId + k
     /\ state' = [Warned(state, "experimentalMethods") EXCEPT !.sentSiteMetadata = TRUE]
     /\ emitted' = <<>>
     /\ delivered' = <<>>
     /\ lastOp' = [Op("batch", i, FALSE, UndefVal) EXCEPT !.shape = "array", !.handed = 1]
     /\ UNCHANGED <<prov, store, timer, open>>

\* the remote end answers element a of a batch.  The engine runs the return
\* handlers on the element's response and keeps it; when the last response
\* of the batch is in, it calls the batch's callback once with the responses
\* in the order of the requests.
RespondBatch(i, a, body) ==
  /\ Connected(i)
  /\ reqs[a].status = "pending" /\ reqs[a].inst = i /\ reqs[a].sent
  /\ reqs[a].batch # 0
  /\ body \in Bodies(reqs[a].method)
  /\ LET s == LookupContext(i, reqs[a].internalId)
         r == reqs[s]
         res0 == [id |-> r.internalId, hasError |-> body.hasError,
                  code |-> body.code, result |-> body.result]
         res == IdRemapRestore(ErrorMiddleware(r.method, res0), r.callerId)
         mine == [answers |-> a, method |-> r.method, sent |-> res0, res |-> res]
         members == {t \in Slots : reqs[t].batch = r.batch}
         complete == \A t \in members \ {s} : reqs[t].status = "answered"
         results == [p \in 1..Cardinality(members) |->
                       IF r.batch + p - 1 = s THEN mine
                       ELSE reqs[r.batch + p - 1].held]
         responses == [p \in 1..Len(results) |-> results[p].res]
     IN /\ reqs' = IF complete
                   THEN [t \in Slots |->
                          IF t \in members
                          THEN [FreeSlot EXCEPT !.status = "done", !.calls = 1]
                          ELSE reqs[t]]
                   ELSE [reqs EXCEPT ![s].status = "answered", ![s].held = mine]
        /\ delivered' = IF complete
                        THEN <<[slot |-> r.batch, answers |-> a, entry |-> r.entry,
                                method |-> "-", callerId |-> NoId,
                                internalId |-> NoId, body |-> body,
                                outcome |-> RpcPromiseCallbackBatch(NoErr, responses),
                                results |-> results, step |-> 0]>>
                        ELSE <<>>
        /\ lastOp' = Op("batch-response", i, FALSE, UndefVal)
  /\ emitted' = <<>>
  /\ UNCHANGED <<state, prov, store, timer, open, nextId>>

\* _handleAccountsChanged(accounts) called on provider i
Reconcile(i, val) ==
  LET hac == HandleAccountsChanged(i, val, state.accounts, prov[i].selectedAddress)
  IN /\ state' = [state EXCEPT !.accounts = hac.accounts]
     /\ prov' = [prov EXCEPT ![i].selectedAddress = hac.selectedAddress]
     /\ emitted' = hac.events

\* the jsonRpcConnection 'notification' listener for wallet_accountsChanged
NotifyAccounts(i, val) ==
  /\ Connected(i)
  /\ Reconcile(i, val)
  /\ delivered' = <<>>
  /\ lastOp' = Op("notification", i, TRUE, val)
  /\ UNCHANGED <<store, timer, open, reqs, nextId>>

OtherNotifications == {"eth_subscription", "eth_other"}

\* a 'data' listener that republishes every notification as 'notification'
NotifyDataRepublishAll(i, method) ==
  /\ Connected(i)
  /\ emitted' = <<Event(i, "provider", "data", <<method>>, 0),
                  Event(i, "provider", "notification", <<>>, 0)>>
  /\ delivered' = <<>>
  /\ lastOp' = Op("notification", i, FALSE, UndefVal)
  /\ UNCHANGED <<state, prov, store, timer, open, reqs, nextId>>

\* the same listener for any other method: a 'data' event, whose own listener
\* emits 'notification' for eth_subscription
NotifyData(i, method) ==
  /\ Connected(i)
  /\ emitted' = <<Event(i, "provider", "data", <<method>>, 0)>> \o
                (IF method = "eth_subscription"
                 THEN <<Event(i, "provider", "notification", <<>>, 0)>> ELSE <<>>)
  /\ delivered' = <<>>
  /\ lastOp' = Op("notification", i, FALSE, UndefVal)
  /\ UNCHANGED <<state, prov, store, timer, open, reqs, nextId>>

\* ------------------------------------------------------- specifications
\* No handler of one component writes what another component's handlers
\* read, except through _state.accounts and selectedAddress; each
\* specification below runs the constructor together with the handlers of
\* one component.

\* connection life cycle: constructor, deferred connect, stream disconnects
ConnNext ==
  \/ \E i \in Inst : Construct(i)
  \/ \E i \in Inst : ConnectTimer(i)
  \/ \E i \in Inst, s \in AllStreams : Disconnect(i, s)

ConnSpec == Init /\ [][ConnNext]_vars

\* requests and responses over the provider channel, and its disconnects.
\* The engine, the stream middleware and its table of pending requests are
\* created by each constructor call for its own provider; what two providers
\* share is _state, which AccountsSpec exercises with both of them.
RpcInst == {"A"}
RpcNext ==
  \/ \E i \in RpcInst : Construct(i)
  \/ \E i \in RpcInst, s \in CriticalStreams : Disconnect(i, s)
  \/ \E i \in RpcInst, e \in Entries, m \in Methods, id \in CallerIds \cup {NoId} :
       Send(i, e, m, id)
  \/ \E i \in RpcInst, a \in Slots, errArg \in BOOLEAN,
          b \in Bodies("eth_accounts") \cup Bodies("eth_call") :
       Respond(i, a, b, errArg)

RpcSpec == Init /\ [][RpcNext]_vars

\* account reconciliation from pushes and from eth_accounts responses
AccountsNext ==
  \/ \E i \in Inst : Construct(i)
  \/ \E i \in Inst, v \in AccountVals : NotifyAccounts(i, v)
  \/ \E i \in Inst, m \in OtherNotifications : NotifyData(i, m)
  \/ \E i \in Inst, e \in Entries : Send(i, e, "eth_accounts", NoId)
  \/ \E i \in Inst, a \in Slots, errArg \in BOOLEAN, b \in Bodies("eth_accounts") :
       Respond(i, a, b, errArg)

AccountsSpec == Init /\ [][AccountsNext]_vars

\* notifications arriving while requests are outstanding
NotifyNext ==
  \/ \E i \in Inst : Construct(i)
  \/ \E i \in Inst, v \in AccountVals : NotifyAccounts(i, v)
  \/ \E i \in Inst, m \in OtherNotifications : NotifyData(i, m)
  \/ \E i \in Inst : Send(i, "sendAsync", "eth_call", NoId)
  \/ \E i \in Inst, a \in Slots, errArg \in BOOLEAN, b \in Bodies("eth_call") :
       Respond(i, a, b, errArg)

NotifySpec == Init /\ [][NotifyNext]_vars

\* the public-config mirror, with account pushes
MirrorNext ==
  \/ \E i \in Inst : Construct(i)
  \/ \E i \in Inst, snap \in Snapshots : Snapshot(i, snap)
  \/ \E i \in Inst, v \in AccountVals : NotifyAccounts(i, v)
  \/ \E i \in Inst : Disconnect(i, ConfigStream)

MirrorSpec == Init /\ [][MirrorNext]_vars

\* requests and responses around a disconnect of the public-config channel
ConfigNext ==
  \/ \E i \in RpcInst : Construct(i)
  \/ \E i \in RpcInst : ConnectTimer(i)
  \/ \E i \in RpcInst : Disconnect(i, ConfigStream)
  \/ \E i \in RpcInst, e \in Entries : Send(i, e, "eth_call", NoId)
  \/ \E i \in RpcInst, a \in Slots, errArg \in BOOLEAN, b \in Bodies("eth_call") :
       Respond(i, a, b, errArg)

\* the remote end answers every request it has received
ConfigFairness ==
  \A a \in Slots :
    WF_vars(\E i \in RpcInst, errArg \in BOOLEAN, b \in Bodies("eth_call") :
              Respond(i, a, b, errArg))

ConfigSpec == Init /\ [][ConfigNext]_vars /\ ConfigFairness

\* batches through _metamask.sendBatch, next to single eth_accounts queries
BatchNext ==
  \/ \E i \in RpcInst : Construct(i)
  \/ \E i \in RpcInst, methods \in Batches : SendBatch(i, methods)
  \/ \E i \in RpcInst, a \in Slots,
          b \in Bodies("eth_accounts") \cup Bodies("eth_call") :
       RespondBatch(i, a, b)
  \/ \E i \in RpcInst, e \in Entries : Send(i, e, "eth_accounts", NoId)
  \/ \E i \in RpcInst, a \in Slots, errArg \in BOOLEAN, b \in Bodies("eth_accounts") :
       Respond(i, a, b, errArg)

BatchSpec == Init /\ [][BatchNext]_vars

\* malformed payloads given to send and sendAsync, next to well-formed ones
MalformedNext ==
  \/ \E i \in Inst : Construct(i)
  \/ \E i \in Inst, shape \in Malformed : SendMalformed(i, shape)
  \/ \E i \in Inst, shape \in Malformed, strict \in BOOLEAN :
       SendAsyncMalformed(i, shape, strict)
  \/ \E i \in Inst, e \in Entries : Send(i, e, "eth_call", NoId)

MalformedSpec == Init /\ [][MalformedNext]_vars

\* the answers tried on the requests of _requestAccounts: each error, and
\* an empty list, a non-empty list and a non-array as result
FacadeBodies ==
  {b \in Bodies("eth_accounts") \cup Bodies(RequestPermissions) :
     b.result \in {UndefVal, NonArray, Arr(<<>>), Arr(<<"0xabc">>)}}

\* _requestAccounts, entered through enable and send('eth_requestAccounts')
FacadeNext ==
  \/ \E i \in RpcInst : Construct(i)
  \/ \E i \in RpcInst, e \in AccountEntries : RequestAccounts(i, e)
  \/ \E i \in RpcInst, a \in Slots, errArg \in BOOLEAN, b \in FacadeBodies :
       RespondRequestAccounts(i, a, b, errArg)

FacadeSpec == Init /\ [][FacadeNext]_vars

\* the whole provider: the union of the component specifications, which are
\* the ones that are model-checked
Next ==
  \/ ConnNext
  \/ RpcNext
  \/ AccountsNext
  \/ NotifyNext
  \/ MirrorNext
  \/ ConfigNext
  \/ BatchNext
  \/ MalformedNext
  \/ FacadeNext

Spec == Init /\ [][Next]_vars

\* --------------------------------------------------------------- claims
EventsNamed(es, i, target, name) ==
  LET Test(e) == e.inst = i /\ e.target = target /\ e.name = name
  IN SelectSeq(es, Test)

EventsOn(es, i, target) ==
  LET Test(e) == e.inst = i /\ e.target = target
  IN SelectSeq(es, Test)

\* the list _handleAccountsChanged works with for an input value
Normalized(val) == IF val.kind = "array" THEN val.items ELSE <<>>

\* C1: every request handed to the engine is completed exactly once, by the
\* response the remote end sent for that very request; a callback sees the
\* caller's own id (none if it gave none), never the engine's id; a
\* successful result and a remote error reach the page unchanged.
C1_CorrelationRoundTrip ==
  /\ \A s \in Slots :
       /\ reqs[s].status = "pending" => reqs[s].calls = 0
       /\ reqs[s].status = "done" => reqs[s].calls = 1
  /\ lastOp.op # "response" => delivered = <<>>
  /\ lastOp.op = "response" =>
       /\ Len(delivered) = 1
       /\ LET d == delivered[1] IN
            /\ d.slot = d.answers
            /\ reqs[d.slot].status = "done"
            /\ d.outcome.id # d.internalId
            /\ d.outcome.how = "callback" => d.outcome.id = d.callerId
            /\ ~d.body.hasError =>
                 d.outcome.code = NoErr /\ d.outcome.value = d.body.result
            /\ (d.body.hasError
                /\ ~(d.method = "eth_accounts" /\ d.body.code = Unauthorized)) =>
                 d.outcome.code = d.body.code

\* two requests were outstanding together; the second was answered first and
\* now the first one's callback receives its response with the caller's id
C1_Witness ==
  /\ lastOp.op = "response"
  /\ Len(delivered) = 1
  /\ delivered[1].slot = 1
  /\ delivered[1].outcome.how = "callback"
  /\ delivered[1].callerId # NoId
  /\ reqs[2].status = "done"

\* C2: a request that was outstanding when a critical channel of its provider
\* disconnected has been completed (with a transport error): none is still
\* pending once the provider is disconnected.
C2_DisconnectDrainsPending ==
  \A s \in Slots :
    (reqs[s].status = "pending" /\ ~reqs[s].late) => Connected(reqs[s].inst)

\* C3: a call made on a disconnected provider fails at once: it is never
\* handed to the engine and left pending.
C3_CallAfterDisconnectFails ==
  \A s \in Slots : reqs[s].status = "pending" => ~reqs[s].late

\* C4: once the connection state is false, it stays false.
C4_FalseIsTerminal ==
  [][state.isConnected = JsFalse => state'.isConnected = JsFalse]_vars

\* C5: the constructor emits no connect event; each provider emits connect
\* exactly once, from the deferred callback: none while the callback is
\* pending, one ever after.
C5_ConnectDeferredOnce ==
  /\ lastOp.op = "construct" =>
       /\ EventsNamed(emitted, lastOp.inst, "provider", "connect") = <<>>
       /\ prov[lastOp.inst].connects = 0
       /\ timer[lastOp.inst]
  /\ \A i \in Inst :
       prov[i].constructed => prov[i].connects = (IF timer[i] THEN 0 ELSE 1)
  /\ lastOp.op = "connect" =>
       emitted = <<Event(lastOp.inst, "provider", "connect", <<>>, 0)>>

\* the deferred callback of a provider has just run
C5_Witness ==
  /\ lastOp.op = "connect"
  /\ prov[lastOp.inst].connects = 1
  /\ ~timer[lastOp.inst]

\* C6: a call of _handleAccountsChanged raises accountsChanged iff the new
\* list differs from the stored one, then exactly once with the new list;
\* with an equal list it raises nothing and changes nothing.
C6_ReconcileIffChanged ==
  [][lastOp'.reconcile =>
       LET new == Normalized(lastOp'.arg)
       IN IF new # state.accounts
          THEN emitted' = <<Event(lastOp'.inst, "provider", "accountsChanged", new, 0)>>
          ELSE emitted' = <<>> /\ state' = state /\ prov' = prov]_vars

\* C7: selectedAddress of every provider is the first stored account, or null.
C7_SelectedIsFirstAccount ==
  \A i \in Inst :
    prov[i].constructed =>
      prov[i].selectedAddress =
        (IF state.accounts # <<>> THEN state.accounts[1] ELSE Null)

\* C8: a snapshot that takes the lock state from unlocked to locked while
\* accounts are stored empties them: accountsChanged([]) is emitted and
\* selectedAddress becomes null.
C8_LockClearsAccounts ==
  [][(lastOp'.op = "snapshot" /\ state.isUnlocked = JsTrue
      /\ state'.isUnlocked = JsFalse /\ state.accounts # <<>>) =>
       /\ state'.accounts = <<>>
       /\ prov'[lastOp'.inst].selectedAddress = Null
       /\ EventsNamed(emitted', lastOp'.inst, "provider", "accountsChanged")
            = <<Event(lastOp'.inst, "provider", "accountsChanged", <<>>, 0)>>]_vars

\* C9: a snapshot updates the provider's mirrored value of each tracked key
\* that is present and differs, and raises on the provider exactly one
\* change event per such key, carrying the new value; other keys raise none.
C9_MirrorRaisesChangeOnProvider ==
  [][lastOp'.op = "snapshot" =>
       LET i == lastOp'.inst
           snap == lastOp'.snap
           lockCh == snap.isUnlocked # Absent /\ snap.isUnlocked # state.isUnlocked
           chainCh == snap.chainId # Absent /\ snap.chainId # prov[i].chainId
           netCh == snap.networkVersion # Absent
                    /\ snap.networkVersion # prov[i].networkVersion
           changes == (IF lockCh THEN {<<snap.isUnlocked>>} ELSE {})
                      \cup (IF chainCh THEN {<<snap.chainId>>} ELSE {})
                      \cup (IF netCh THEN {<<snap.networkVersion>>} ELSE {})
           raised == EventsOn(emitted', i, "provider")
       IN /\ lockCh => state'.isUnlocked = snap.isUnlocked
          /\ chainCh => prov'[i].chainId = snap.chainId
          /\ netCh => prov'[i].networkVersion = snap.networkVersion
          /\ Len(raised) = Cardinality(changes)
          /\ {raised[k].payload : k \in 1..Len(raised)} = changes]_vars

C11_MalformedRejectedEarly ==
  [][lastOp'.shape \in Malformed =>
       /\ lastOp'.thrown = InvalidRequest
       /\ lastOp'.handed = 0
       /\ state'.sentSiteMetadata = state.sentSiteMetadata
       /\ reqs' = reqs
       /\ nextId' = nextId]_vars

\* C12: the step in which the public-config channel disconnects changes
\* nothing of _state (the connection state in particular), emits no event
\* and leaves the requests alone; a request that is pending while that
\* channel is down, submitted before or after, is answered: its callback
\* or promise is completed once, by its own response.
C12_ConfigDisconnectHarmless ==
  /\ [][\A i \in Inst :
          (lastOp'.op = "disconnect" /\ lastOp'.inst = i
           /\ ConfigStream \in open[i] \ open'[i]) =>
            /\ state' = state
            /\ emitted' = <<>>
            /\ reqs' = reqs
            /\ Connected(i) <=> CriticalStreams \subseteq open'[i]]_vars
  /\ \A s \in Slots :
       (reqs[s].status = "pending" /\ ConfigStream \notin open[reqs[s].inst])
         ~> (reqs[s].status = "done" /\ reqs[s].calls = 1)

\* with the public-config channel down and the provider still connected, a
\* request has just been answered and its promise or callback completed
C12_Witness ==
  /\ lastOp.op = "response"
  /\ ConfigStream \notin open[lastOp.inst]
  /\ Connected(lastOp.inst)
  /\ state.isConnected = JsTrue
  /\ Len(delivered) = 1
  /\ delivered[1].outcome.how \in {"resolve", "callback"}

\* C13: a notification completes no request and leaves the requests as they
\* are.  wallet_accountsChanged goes to _handleAccountsChanged only: no data
\* and no notification event.  Any other notification changes no state and
\* raises one data event with the payload, followed by one notification
\* event exactly when its method is eth_subscription.
C13_NotificationRouting ==
  [][lastOp'.op = "notification" =>
       LET i == lastOp'.inst
           data == EventsNamed(emitted', i, "provider", "data")
           notes == EventsNamed(emitted', i, "provider", "notification")
       IN /\ reqs' = reqs
          /\ delivered' = <<>>
          /\ IF lastOp'.reconcile
             THEN /\ data = <<>> /\ notes = <<>>
                  /\ emitted' = HandleAccountsChanged(i, lastOp'.arg, state.accounts,
                                                      prov[i].selectedAddress).events
             ELSE /\ state' = state /\ prov' = prov
                  /\ Len(data) = 1
                  /\ emitted' = data \o notes
                  /\ Len(notes) =
                       (IF data[1].payload = <<"eth_subscription">> THEN 1 ELSE 0)]_vars

\* while a request is pending, a notification that is not a subscription
\* message has just been published as a data event only
C13_Witness ==
  /\ lastOp.op = "notification"
  /\ ~lastOp.reconcile
  /\ \E s \in Slots : reqs[s].status = "pending" /\ reqs[s].inst = lastOp.inst
  /\ emitted = <<Event(lastOp.inst, "provider", "data", <<"eth_other">>, 0)>>

\* C14: the promise of sendBatch is completed once, when the last response
\* of the batch has arrived and not before: it resolves with one response
\* per request, the p-th being the response to the p-th request of the
\* batch, whatever the order the responses arrived in.
C14_BatchAtomicOrdered ==
  [][lastOp'.op = "batch-response" =>
       \A s \in Slots :
         (reqs[s].status = "pending" /\ reqs'[s].status # "pending") =>
           LET f == reqs[s].batch
               members == {t \in Slots : reqs[t].batch = f}
               k == Cardinality(members)
               last == \A t \in members \ {s} : reqs[t].status = "answered"
           IN IF ~last
              THEN /\ delivered' = <<>>
                   /\ \A t \in members : reqs'[t].status # "done" /\ reqs'[t].calls = 0
              ELSE /\ Len(delivered') = 1
                   /\ LET d == delivered'[1] IN
                        /\ d.slot = f
                        /\ Len(d.results) = k
                        /\ d.outcome.how = "resolve"
                        /\ d.outcome.value.kind = "responses"
                        /\ Len(d.outcome.value.items) = k
                        /\ \A p \in 1..k :
                             /\ d.results[p].answers = f + p - 1
                             /\ d.results[p].method = reqs[f + p - 1].method
                             /\ reqs'[f + p - 1].status = "done"
                             /\ reqs'[f + p - 1].calls = 1
                             /\ d.outcome.value.items[p] = d.results[p].res
                             /\ d.results[p].res.id # d.results[p].sent.id
                             /\ ~d.results[p].sent.hasError =>
                                  d.results[p].res.result = d.results[p].sent.result]_vars

\* a batch of two requests was answered in reverse order and its promise
\* has just been resolved with both responses
C14_Witness ==
  /\ lastOp.op = "batch-response"
  /\ Len(delivered) = 1
  /\ Len(delivered[1].results) = 2
  /\ delivered[1].answers = delivered[1].slot
  /\ delivered[1].outcome.how = "resolve"

\* C15: when a request sent by _requestAccounts is answered with an error
\* (other than the 4100 that an eth_accounts query absorbs), the promise the
\* caller of enable / send('eth_requestAccounts') holds is rejected with
\* that error, and the call sends nothing more.
C15_RequestAccountsRejectsOnError ==
  [][lastOp'.op = "requestAccounts-response" =>
       \A s \in Slots :
         reqs'[s] # reqs[s] =>
           LET b == lastOp'.body
               absorbed == reqs[s].method = "eth_accounts" /\ b.code = Unauthorized
           IN (b.hasError /\ ~absorbed) =>
                /\ reqs'[s].status = "done"
                /\ Len(delivered') = 1
                /\ delivered'[1].outcome.how = "reject"
                /\ delivered'[1].outcome.code = b.code]_vars

\* C16: what one provider shows of the connection state, the accounts, the
\* lock state, the site-metadata flag and the warning flags (all read from
\* _state) is not changed by a handler of another provider.
C16_InstancesOwnTheirState ==
  [][\A i \in Inst, j \in Inst :
       (i # j /\ lastOp'.inst = i /\ prov[j].constructed) => state' = state]_vars

\* C17: the first disconnect of a critical channel of a provider emits that
\* provider's close event with code 1011, whether or not its deferred
\* connect has fired; the disconnect of its other critical channel emits
\* no close event.
C17_CloseExactlyOnce ==
  [][lastOp'.op = "disconnect" =>
       LET i == lastOp'.inst
           gone == open[i] \ open'[i]
       IN gone \subseteq CriticalStreams =>
            IF CriticalStreams \subseteq open[i]
            THEN emitted' = <<Event(i, "provider", "close", <<>>, CloseCode)>>
            ELSE EventsNamed(emitted', i, "provider", "close") = <<>>]_vars

\* C18: when _handleAccountsChanged raises accountsChanged, its listeners
\* already find the new list stored and selectedAddress equal to the list's
\* first element (null for the empty list).
C18_StoredBeforeEvent ==
  [][lastOp'.reconcile =>
       LET i == lastOp'.inst
           hac == HandleAccountsChanged(i, lastOp'.arg, state.accounts,
                                        prov[i].selectedAddress)
       IN \A k \in 1..Len(hac.events) :
            /\ hac.seen.accounts = hac.events[k].payload
            /\ hac.seen.selectedAddress =
                 (IF hac.events[k].payload # <<>>
                  THEN hac.events[k].payload[1] ELSE Null)]_vars

\* C19: when a caller is given the successful result of an eth_accounts
\* query, through a callback, a promise, or as the one eth_accounts element
\* of a batch, that result has been through _handleAccountsChanged: the
\* stored list is the result (the empty list for a non-array) and
\* selectedAddress is its first element, or null.
C19_AccountsResponseReconciled ==
  \A k \in 1..Len(delivered) :
    LET d == delivered[k]
        Reflects(v) ==
          /\ state.accounts = Normalized(v)
          /\ prov[lastOp.inst].selectedAddress =
               (IF Normalized(v) # <<>> THEN Normalized(v)[1] ELSE Null)
    IN IF Len(d.results) = 0
       THEN (d.method = "eth_accounts" /\ d.outcome.how # "reject"
             /\ d.outcome.code = NoErr) => Reflects(d.outcome.value)
       ELSE \A p \in 1..Len(d.results) :
              (/\ d.results[p].method = "eth_accounts"
               /\ ~d.results[p].res.hasError
               /\ \A q \in 1..Len(d.results) :
                    q # p => d.results[q].method # "eth_accounts")
                => Reflects(d.results[p].res.result)

\* C20: a call of _requestAccounts sends eth_accounts first.  When that
\* query succeeds with a non-empty list the caller's promise resolves with
\* it and nothing more is sent; when it succeeds with an empty list or a
\* non-array, wallet_requestPermissions is sent; when that succeeds,
\* eth_accounts is sent again and the caller's promise resolves with its
\* result.  Each request is sent once, when the one before it has
\* completed: three at most, and none after a failure.
C20_RequestAccountsOrder ==
  /\ [](\A s \in Slots :
         /\ reqs[s].step \in 0..3
         /\ (reqs[s].status = "pending" /\ reqs[s].step > 0) =>
              reqs[s].method =
                (IF reqs[s].step = 2 THEN RequestPermissions ELSE "eth_accounts"))
  /\ [][lastOp'.op = "requestAccounts" =>
          \A s \in Slots :
            reqs'[s] # reqs[s] =>
              /\ reqs[s].status = "free"
              /\ reqs'[s].status = "pending"
              /\ reqs'[s].step = 1]_vars
  /\ [][lastOp'.op = "requestAccounts-response" =>
          \A s \in Slots :
            reqs'[s] # reqs[s] =>
              LET r == reqs[s]
                  b == lastOp'.body
                  absorbed == r.method = "eth_accounts" /\ b.hasError
                              /\ b.code = Unauthorized
                  ok == ~b.hasError \/ absorbed
                  v == IF absorbed THEN Arr(<<>>) ELSE b.result
                  nonEmpty == v.kind = "array" /\ v.items # <<>>
                  Sent(method) ==
                    /\ reqs'[s].status = "pending"
                    /\ reqs'[s].method = method
                    /\ reqs'[s].step = r.step + 1
                    /\ reqs'[s].internalId # r.internalId
                    /\ nextId' = nextId + 1
                    /\ lastOp'.handed = 1
                    /\ delivered' = <<>>
                  Ended ==
                    /\ reqs'[s].status = "done"
                    /\ reqs'[s].calls = 1
                    /\ delivered'[1].step = r.step
                    /\ nextId' = nextId
                    /\ lastOp'.handed = 0
                    /\ Len(delivered') = 1
                  Returned ==
                    /\ Ended
                    /\ delivered'[1].outcome.how = "resolve"
                    /\ delivered'[1].outcome.value = v
              IN /\ r.status = "pending" /\ r.step \in 1..3
                 /\ IF ~ok THEN Ended
                    ELSE IF r.step = 1
                    THEN (IF nonEmpty THEN Returned ELSE Sent(RequestPermissions))
                    ELSE IF r.step = 2 THEN Sent("eth_accounts")
                    ELSE Returned]_vars

\* the first query returned no accounts, the permission was granted, and
\* the second eth_accounts query has just given the caller a non-empty list
C20_Witness ==
  /\ lastOp.op = "requestAccounts-response"
  /\ Len(delivered) = 1
  /\ reqs[delivered[1].slot].status = "done"
  /\ delivered[1].step = 3
  /\ delivered[1].outcome.how = "resolve"
  /\ delivered[1].outcome.value.kind = "array"
  /\ delivered[1].outcome.value.items # <<>>

====
